---- MODULE Spec2Model ----
(***************************************************************************)
(* Model of qudi/gui/gui_components/colorbar/colorbar.py: the              *)
(* ColorbarWidget controller (mode radio buttons, four spin boxes, the     *)
(* attached image widget) and the range it hands to the ColorBar legend    *)
(* and to the image as display levels.                                     *)
(*                                                                         *)
(* Numbers: spin box values and image entries are integers.  A range is a  *)
(* pair <<min, max>> in fixed point with denominator Scale, so that the    *)
(* linear interpolation of np.percentile is exact for integer percents.    *)
(***************************************************************************)
EXTENDS Integers, Sequences, FiniteSets, TLC

\* ---- bounds of the model ----
ImageLen == 2        \* number of entries of an image (flattened)
MaxVal == 2          \* largest image entry / manual value a user types

\* denominator of a percent (np.percentile takes q in percent)
Scale == 100

\* image entries: zero (not measured), a small and a large reading
Vals == {0, 1, MaxVal}
ManualInputs == Vals
\* values a user can type in a percentile box (before the box clamps them)
PctInputs == {0, 50, 100, 150}

\* image_widget.image is None: the widget holds no data (an image with
\* data has at least one entry)
NoImage == <<>>
\* no display levels were applied to the widget
NoLevels == <<>>

Images == [1..ImageLen -> Vals]

VARIABLES
    manual,          \* self.manual.isChecked(); self.percentile.isChecked() is its negation
    min_manual,      \* self._min_manual.value()
    max_manual,      \* self._max_manual.value()
    min_percentile,  \* self._min_percentile.value()
    max_percentile,  \* self._max_percentile.value()
    image,           \* self._image.image, flattened
    cb,              \* (cb_min, cb_max) last drawn by self._cb.refresh_colorbar
    levels,          \* levels last passed to setImage of the image widget and applied
    trace,           \* calls made by the handler that ran last, in order
    error,           \* the handler that ran last raised
    last,            \* the kind of event handled last
    rt,              \* history of a PERCENTILE -> MANUAL -> PERCENTILE round trip
    \* a handler of ColorbarWidget run statement by statement
    pc,              \* the statement of update_cb_range the GUI thread is at
    reg,             \* its local variables
    seen,            \* history of the cycle: the reads of self._image.image
                     \* and the replacements of the sample by the view
    \* two ColorBar objects
    bar,
    \* CornerstoneSpectrometer
    module_state,    \* self.module_state()
    device,          \* grating and wavelength of self._device
    th,              \* the calls of set_grating / set_wavelength in progress
    cmds             \* the commands sent to self._device

\* the variables of ColorbarWidget
wvars == <<manual, min_manual, max_manual, min_percentile, max_percentile,
           image, cb, levels, trace, error, last, rt>>
concVars == <<pc, reg, seen>>
csVars == <<module_state, device, th, cmds>>

vars == <<wvars, concVars, bar, csVars>>

\* the parts of the model a specification does not run
NoReg == [a |-> <<>>, r |-> <<>>, image_data |-> <<>>]
NoReads == [first |-> <<>>, same |-> TRUE, replaced |-> 0]
ConcOff == pc = [at |-> "idle", call |-> 0] /\ reg = NoReg /\ seen = NoReads
BarOff == bar = <<>>
CsOff == module_state = "deactivated" /\ device = <<>> /\ th = <<>> /\ cmds = <<>>

\* ---- numpy helpers ----

\* np.count_nonzero(a); np.count_nonzero(None) is 0
count_nonzero(a) ==
    Cardinality({i \in DOMAIN a : a[i] # 0})

\* a[np.nonzero(a)]: the nonzero entries, in order
nonzero(a) == SelectSeq(a, LAMBDA x : x # 0)

\* np.min(a), np.max(a)
np_min(a) == CHOOSE x \in {a[i] : i \in DOMAIN a} : \A i \in DOMAIN a : x <= a[i]
np_max(a) == CHOOSE x \in {a[i] : i \in DOMAIN a} : \A i \in DOMAIN a : x >= a[i]

RECURSIVE insert(_, _)
insert(x, a) ==
    IF a = <<>> THEN <<x>>
    ELSE IF x <= Head(a) THEN <<x>> \o a
    ELSE <<Head(a)>> \o insert(x, Tail(a))

RECURSIVE np_sort(_)
np_sort(a) == IF a = <<>> THEN <<>> ELSE insert(Head(a), np_sort(Tail(a)))

\* faulty variant: percentile that takes the ranks from the unsorted array
percentile_unsorted(a, q) ==
    LET n   == Len(a)
        pos == (n - 1) * q
        lo  == (pos \div Scale) + 1
        hi  == IF lo + 1 <= n THEN lo + 1 ELSE n
    IN  Scale * a[lo] + (a[hi] - a[lo]) * (pos % Scale)

\* np.percentile(a, q), default method 'linear': virtual index (n-1)*q/100 in
\* the sorted array, linear interpolation between the two closest ranks.
\* The result is in fixed point (times Scale).
percentile(a, q) ==
    LET s   == np_sort(a)
        n   == Len(s)
        pos == (n - 1) * q
        lo  == (pos \div Scale) + 1
        hi  == IF lo + 1 <= n THEN lo + 1 ELSE n
    IN  Scale * s[lo] + (s[hi] - s[lo]) * (pos % Scale)

\* ---- the widget as a value, so that handlers can call each other ----

\* F applied to the value of x, with x evaluated once
Let(F(_), x) == CHOOSE r \in {F(v) : v \in {x}} : TRUE

St == [manual |-> manual, min_manual |-> min_manual, max_manual |-> max_manual,
       min_percentile |-> min_percentile, max_percentile |-> max_percentile,
       image |-> image, cb |-> cb, levels |-> levels,
       trace |-> trace, error |-> error]

Mode(s) == IF s.manual THEN "MANUAL" ELSE "PERCENTILE"

\* faulty variant: percentiles taken over the whole image, zeros included
get_cb_range_with_zeros(s) ==
    IF s.manual \/ count_nonzero(s.image) < 1
    THEN <<Scale * s.min_manual, Scale * s.max_manual>>
    ELSE <<percentile(s.image, s.min_percentile),
           percentile(s.image, s.max_percentile)>>

\* faulty variant: the all-zero fallback is missing, percentiles of the whole image
get_cb_range_no_fallback(s) ==
    IF s.manual \/ s.image = NoImage
    THEN <<Scale * s.min_manual, Scale * s.max_manual>>
    ELSE <<percentile(s.image, s.min_percentile),
           percentile(s.image, s.max_percentile)>>

\* ColorbarWidget.get_cb_range
get_cb_range(s) ==
    IF s.manual \/ count_nonzero(s.image) < 1
    THEN <<Scale * s.min_manual, Scale * s.max_manual>>
    ELSE LET image_nonzero == nonzero(s.image)
         IN  <<percentile(image_nonzero, s.min_percentile),
               percentile(image_nonzero, s.max_percentile)>>

\* one entry of the call log
Call(op, s, r) == [op |-> op, mode |-> Mode(s), r |-> r]

\* ColorbarWidget.refresh_colorbar: compute the range, draw the legend
refresh_colorbar(w) ==
    Let(LAMBDA s :
            Let(LAMBDA cb_range :
                    [s EXCEPT !.cb = cb_range,
                              !.trace = @ \o <<Call("range", s, cb_range),
                                               Call("legend", s, cb_range)>>],
                get_cb_range(s)),
        w)

\* ImageItem.setImage(image, levels): returns at once when there is no data
setImage(w, r) ==
    Let(LAMBDA s :
            [s EXCEPT !.levels = IF s.image = NoImage THEN @ ELSE r,
                      !.trace = Append(@, Call("image", s, r))],
        w)

\* ColorbarWidget.refresh_image
refresh_image(w) ==
    Let(LAMBDA s :
            Let(LAMBDA cb_range :
                    LET s1 == [s EXCEPT !.trace = Append(@, Call("range", s, cb_range))]
                    IN  refresh_colorbar(setImage(s1, cb_range)),
                get_cb_range(s)),
        w)

\* faulty variant: the refresh writes the computed range back into the manual boxes
update_cb_range_writeback(s) ==
    Let(LAMBDA t : [t EXCEPT !.min_manual = t.cb[1] \div Scale,
                             !.max_manual = t.cb[2] \div Scale],
        refresh_image(refresh_colorbar(s)))

\* ColorbarWidget.update_cb_range
update_cb_range(s) == refresh_image(refresh_colorbar(s))

\* faulty variant: the shortcut forgets to check the radio button
shortcut_to_cb_manual_nocheck(s) == update_cb_range(s)

\* ColorbarWidget.shortcut_to_cb_manual
shortcut_to_cb_manual(s) == update_cb_range([s EXCEPT !.manual = TRUE])

\* ColorbarWidget.shortcut_to_cb_centiles
shortcut_to_cb_centiles(s) == update_cb_range([s EXCEPT !.manual = FALSE])

\* ScienDSpinBox range check against setMinimum(0) / setMaximum(100)
check_range(v) == IF v < 0 THEN 0 ELSE IF v > 100 THEN 100 ELSE v

\* the four spin boxes: setValue stores the value and emits valueChanged,
\* which runs the connected shortcut, only when the value changes
setValue_min_manual(w, v) ==
    Let(LAMBDA s :
            IF v = s.min_manual THEN s
            ELSE shortcut_to_cb_manual([s EXCEPT !.min_manual = v]),
        w)

setValue_max_manual(w, v) ==
    Let(LAMBDA s :
            IF v = s.max_manual THEN s
            ELSE shortcut_to_cb_manual([s EXCEPT !.max_manual = v]),
        w)

setValue_min_percentile(w, v) ==
    Let(LAMBDA s :
            IF check_range(v) = s.min_percentile THEN s
            ELSE shortcut_to_cb_centiles([s EXCEPT !.min_percentile = check_range(v)]),
        w)

setValue_max_percentile(w, v) ==
    Let(LAMBDA s :
            IF check_range(v) = s.max_percentile THEN s
            ELSE shortcut_to_cb_centiles([s EXCEPT !.max_percentile = check_range(v)]),
        w)

\* ColorbarWidget.set_image; d is the data of the widget passed.
\* np.min of a widget without data raises after self._image was assigned.
set_image(s, d) ==
    LET s0 == [s EXCEPT !.image = d]
    IN  IF d = NoImage
        THEN [s0 EXCEPT !.error = TRUE]
        ELSE LET s1 == setValue_min_manual(s0, np_min(d))
                 s2 == setValue_min_percentile(s1, 0)
                 s3 == setValue_max_manual(s2, np_max(d))
                 s4 == setValue_max_percentile(s3, 100)
             IN  refresh_colorbar(s4)

\* ColorbarWidget.__init__ on a widget holding data d; ui_manual is the
\* checked state of the manual radio button in the .ui file
construct(d, ui_manual) ==
    LET s0 == [manual |-> ui_manual, min_manual |-> 0, max_manual |-> 0,
               min_percentile |-> 0, max_percentile |-> 100,
               image |-> NoImage, cb |-> <<Scale * 0, Scale * 100>>,
               levels |-> NoLevels, trace |-> <<>>, error |-> FALSE]
        s1 == set_image(s0, d)
        s2 == update_cb_range(s1)
    IN  [s2 EXCEPT !.manual = FALSE]

\* ---- state machine ----

NoTrip == [stage |-> 0, cb |-> NoLevels, levels |-> NoLevels]

Start(s) == [s EXCEPT !.trace = <<>>, !.error = FALSE]

Apply(w) ==
  \E s \in {w} :
    /\ manual' = s.manual
    /\ min_manual' = s.min_manual
    /\ max_manual' = s.max_manual
    /\ min_percentile' = s.min_percentile
    /\ max_percentile' = s.max_percentile
    /\ image' = s.image
    /\ cb' = s.cb
    /\ levels' = s.levels
    /\ trace' = s.trace
    /\ error' = s.error

Init ==
    \E d \in Images, ui_manual \in BOOLEAN :
      \E s \in {construct(d, ui_manual)} :
        /\ manual = s.manual
        /\ min_manual = s.min_manual
        /\ max_manual = s.max_manual
        /\ min_percentile = s.min_percentile
        /\ max_percentile = s.max_percentile
        /\ image = s.image
        /\ cb = s.cb
        /\ levels = s.levels
        /\ trace = s.trace
        /\ error = s.error
        /\ last = "init"
        /\ rt = NoTrip
        /\ ConcOff /\ BarOff /\ CsOff

\* the user clicks the manual radio button: it is checked, then clicked fires
click_manual ==
    /\ Apply(update_cb_range([Start(St) EXCEPT !.manual = TRUE]))
    /\ last' = "click_manual"
    /\ rt' = IF ~manual THEN [stage |-> 1, cb |-> cb, levels |-> levels]
             ELSE NoTrip
    /\ UNCHANGED <<concVars, bar, csVars>>

\* the user clicks the percentile radio button
click_percentile ==
    /\ Apply(update_cb_range([Start(St) EXCEPT !.manual = FALSE]))
    /\ last' = "click_percentile"
    /\ rt' = IF rt.stage = 1 THEN [rt EXCEPT !.stage = 2] ELSE NoTrip
    /\ UNCHANGED <<concVars, bar, csVars>>

\* the user edits one of the four boxes to another value
edit_min_manual ==
    \E v \in ManualInputs :
        /\ v # min_manual
        /\ Apply(setValue_min_manual(Start(St), v))
        /\ last' = "edit_manual"
        /\ rt' = NoTrip
        /\ UNCHANGED <<concVars, bar, csVars>>

edit_max_manual ==
    \E v \in ManualInputs :
        /\ v # max_manual
        /\ Apply(setValue_max_manual(Start(St), v))
        /\ last' = "edit_manual"
        /\ rt' = NoTrip
        /\ UNCHANGED <<concVars, bar, csVars>>

edit_min_percentile ==
    \E v \in PctInputs :
        /\ check_range(v) # min_percentile
        /\ Apply(setValue_min_percentile(Start(St), v))
        /\ last' = "edit_percentile"
        /\ rt' = NoTrip
        /\ UNCHANGED <<concVars, bar, csVars>>

edit_max_percentile ==
    \E v \in PctInputs :
        /\ check_range(v) # max_percentile
        /\ Apply(setValue_max_percentile(Start(St), v))
        /\ last' = "edit_percentile"
        /\ rt' = NoTrip
        /\ UNCHANGED <<concVars, bar, csVars>>

\* set_image is called with a widget holding data d, or no data
SetImage ==
    \E d \in Images \cup {NoImage} :
        /\ Apply(set_image(Start(St), d))
        /\ last' = "set_image"
        /\ rt' = NoTrip
        /\ UNCHANGED <<concVars, bar, csVars>>

Next ==
    \/ click_manual
    \/ click_percentile
    \/ edit_min_manual
    \/ edit_max_manual
    \/ edit_min_percentile
    \/ edit_max_percentile
    \/ SetImage

Spec == Init /\ [][Next]_vars

TypeOK ==
    /\ manual \in BOOLEAN
    /\ error \in BOOLEAN
    /\ min_percentile \in 0..100
    /\ max_percentile \in 0..100
    /\ image \in Images \cup {NoImage}
    /\ Len(cb) = 2

\* ---- helpers of the claims ----

ManualRange == <<Scale * min_manual, Scale * max_manual>>
UserEvents == {"click_manual", "click_percentile", "edit_manual", "edit_percentile"}
Ops(tr) == [i \in DOMAIN tr |-> tr[i].op]
RangeCalls == {i \in DOMAIN trace : trace[i].op = "range"}
HasData == image # NoImage
Bounds == <<min_manual, max_manual, min_percentile, max_percentile>>

\* C1: after every handler that returned, the range drawn on the legend is
\* the range applied to the image as display levels.
C1_LegendMatchesImage == ~error => cb = levels

\* C2: a toggle or an edit computes the range once, then renders the legend
\* once with it, then applies the same range to the image once.
C2_ComputeOnceRenderApply ==
    last \in UserEvents =>
        /\ Ops(trace) = <<"range", "legend", "image">>
        /\ trace[2].r = trace[1].r
        /\ trace[3].r = trace[1].r

\* C3: an edit of a manual field leaves the mode MANUAL, an edit of a
\* percentile field leaves it PERCENTILE, a toggle leaves the toggled mode,
\* and every range computation of that event already sees the new mode.
C3_ModeTransition ==
    /\ last \in {"edit_manual", "click_manual"} =>
           /\ manual
           /\ RangeCalls # {}
           /\ \A i \in RangeCalls : trace[i].mode = "MANUAL"
    /\ last \in {"edit_percentile", "click_percentile"} =>
           /\ ~manual
           /\ RangeCalls # {}
           /\ \A i \in RangeCalls : trace[i].mode = "PERCENTILE"

C3_Witness ==
    /\ last = "edit_manual"
    /\ manual
    /\ min_percentile # 0
    /\ Len(trace) = 6

\* C4 as claimed: the mode and the bounds change only in a toggle or an edit.
C4_OnlyUserIntent ==
    [][(manual' # manual \/ Bounds' # Bounds) => last' \in UserEvents]_vars

\* C4 as amended: a toggle (and the refreshes it runs) changes no bound, an
\* edit changes only the bound edited, and beside these only set_image
\* changes them: it sets the manual bounds to the minimum and maximum of the
\* image and the percentile bounds to 0 and 100, or nothing when it raises.
C4_BoundsFrame ==
    [][/\ last' \in {"click_manual", "click_percentile"} => Bounds' = Bounds
       /\ last' = "edit_manual" =>
              /\ <<min_percentile, max_percentile>>' = <<min_percentile, max_percentile>>
              /\ min_manual' = min_manual \/ max_manual' = max_manual
       /\ last' = "edit_percentile" =>
              /\ <<min_manual, max_manual>>' = <<min_manual, max_manual>>
              /\ min_percentile' = min_percentile \/ max_percentile' = max_percentile
       /\ (last' = "set_image" /\ error') =>
              (manual' = manual /\ Bounds' = Bounds)
       /\ (last' = "set_image" /\ ~error') =>
              Bounds' = <<np_min(image'), np_max(image'), 0, 100>>
      ]_vars

C4_Witness ==
    /\ last = "click_percentile"
    /\ ~manual
    /\ cb # ManualRange
    /\ levels = cb

\* C5: get_cb_range returns the manual bounds in MANUAL mode, and in
\* PERCENTILE mode when the image has no nonzero entry, whatever the
\* percentile bounds; no error is raised.
C5_ManualFallback ==
    (manual \/ (HasData /\ count_nonzero(image) < 1)) =>
        /\ get_cb_range(St) = ManualRange
        /\ last \in UserEvents =>
               /\ ~error
               /\ \A i \in RangeCalls : trace[i].r = ManualRange
               /\ cb = ManualRange

C5_Witness ==
    /\ ~manual
    /\ HasData
    /\ count_nonzero(image) < 1
    /\ last = "edit_percentile"
    /\ max_percentile # 100
    /\ ManualRange # <<0, 0>>
    /\ cb = ManualRange

\* C6: in PERCENTILE mode with a nonzero entry and percentiles 0 and 100 the
\* range is (least nonzero entry, greatest nonzero entry).
C6_ZerosExcluded ==
    (~manual /\ count_nonzero(image) >= 1
        /\ min_percentile = 0 /\ max_percentile = 100) =>
        LET nz == nonzero(image)
            r  == <<Scale * np_min(nz), Scale * np_max(nz)>>
        IN  /\ get_cb_range(St) = r
            /\ last \in UserEvents => cb = r

C6_Witness ==
    /\ ~manual
    /\ count_nonzero(image) >= 1
    /\ count_nonzero(image) < Len(image)
    /\ min_percentile = 0
    /\ max_percentile = 100
    /\ last = "click_percentile"
    /\ cb = <<Scale * MaxVal, Scale * MaxVal>>

\* C7: in PERCENTILE mode with a nonzero entry and low <= high the range
\* computed has min <= max.
C7_PercentileOrdered ==
    (~manual /\ count_nonzero(image) >= 1
        /\ min_percentile <= max_percentile) =>
        /\ get_cb_range(St)[1] <= get_cb_range(St)[2]
        /\ last \in UserEvents => cb[1] <= cb[2]

C7_Witness ==
    /\ ~manual
    /\ Len(image) = 2
    /\ image[1] > image[2]
    /\ image[2] > 0
    /\ min_percentile < max_percentile
    /\ last = "edit_percentile"
    /\ cb[1] < cb[2]

\* C8: from PERCENTILE mode, a toggle to MANUAL and a toggle back, with
\* nothing in between, shows the legend range and image levels shown before.
C8_RoundTrip == rt.stage = 2 => (cb = rt.cb /\ levels = rt.levels)

\* C9: while the image holds no data an event recomputes nothing: no range
\* computation, no legend render, no levels applied, no error.
C9_AbsentIsNoOp ==
    [][(image = NoImage /\ image' = NoImage /\ last' \in UserEvents) =>
          (cb' = cb /\ levels' = levels /\ trace' = <<>> /\ ~error')]_vars

\* C10: the manual bounds satisfy min <= max, and no range with min > max
\* taken from them reaches the legend or the image levels.
C10_ManualOrdered ==
    /\ min_manual <= max_manual
    /\ manual => (cb[1] <= cb[2])

\* C11: both percentile bounds lie in [0, 100], and whenever the range is
\* computed from them (PERCENTILE mode, an image with a nonzero entry)
\* low <= high holds.
C11_PercentileBoundsOrdered ==
    /\ min_percentile \in 0..100
    /\ max_percentile \in 0..100
    /\ (last \in UserEvents /\ ~manual /\ count_nonzero(image) >= 1) =>
           min_percentile <= max_percentile

\* C17: whenever no handler runs, after construction included, the range on
\* the legend and the levels of the image are get_cb_range of the current
\* mode, bounds and image.
C17_DisplayIsCurrentRange ==
    (~error /\ HasData) =>
        (cb = get_cb_range(St) /\ levels = get_cb_range(St))

\* ---- update_cb_range statement by statement, the image view on another thread ----

At(at, call) == [at |-> at, call |-> call]
Idle == At("idle", 0)
Clicks == {"click_manual", "click_percentile"}

\* the view replaces the sample at most MaxReplace times between two events
MaxReplace == 1

\* a read of self._image.image, recorded in the history of the cycle
Read(h, a) ==
    IF h.first = <<>> THEN [h EXCEPT !.first = a]
    ELSE [h EXCEPT !.same = @ /\ a = h.first]

\* np.percentile of an empty array, where it does not raise
NaN == 0 - 1

\* a[np.nonzero(b)] for two arrays of one shape: the entries of a at the
\* positions where b is nonzero
take_nonzero(a, b) ==
    LET F[i \in 0..Len(a)] ==
            IF i = 0 THEN <<>>
            ELSE IF b[i] # 0 THEN Append(F[i - 1], a[i]) ELSE F[i - 1]
    IN  F[Len(a)]

\* get_cb_range returns r to its caller: call 1 is refresh_colorbar in
\* update_cb_range, call 2 is refresh_image, call 3 is refresh_colorbar in
\* refresh_image
Return(c, r) ==
    CASE c = 1 -> cb' = r /\ pc' = At("image_data", 2) /\ reg' = NoReg
      [] c = 2 -> cb' = cb /\ pc' = At("setImage", 2) /\ reg' = [reg EXCEPT !.r = r, !.a = <<>>]
      [] c = 3 -> cb' = r /\ pc' = Idle /\ reg' = NoReg

\* manual.clicked / percentile.clicked: update_cb_range starts
conc_click ==
    \E m \in BOOLEAN :
        /\ pc = Idle
        /\ manual' = m
        /\ last' = IF m THEN "click_manual" ELSE "click_percentile"
        /\ error' = FALSE
        /\ seen' = NoReads
        /\ pc' = At("test", 1)
        /\ UNCHANGED <<min_manual, max_manual, min_percentile, max_percentile,
                       image, cb, levels, trace, rt, reg, bar, csVars>>

\* get_cb_range, the test: isChecked() or count_nonzero(self._image.image) < 1
conc_test ==
    /\ pc.at = "test"
    /\ IF manual
       THEN /\ Return(pc.call, ManualRange)
            /\ seen' = seen
       ELSE /\ seen' = Read(seen, image)
            /\ IF count_nonzero(image) < 1
               THEN Return(pc.call, ManualRange)
               ELSE /\ pc' = At("read_a", pc.call)
                    /\ UNCHANGED <<cb, reg>>
    /\ UNCHANGED <<manual, min_manual, max_manual, min_percentile, max_percentile,
                   image, levels, trace, error, last, rt, bar, csVars>>

\* get_cb_range: the array that is indexed, self._image.image
conc_read_a ==
    /\ pc.at = "read_a"
    /\ reg' = [reg EXCEPT !.a = image]
    /\ seen' = Read(seen, image)
    /\ pc' = At("read_idx", pc.call)
    /\ UNCHANGED <<wvars, bar, csVars>>

\* get_cb_range: the index np.nonzero(self._image.image), then the percentiles.
\* np.percentile of an empty selection raises or gives nan.
conc_read_idx ==
    /\ pc.at = "read_idx"
    /\ seen' = Read(seen, image)
    /\ \E image_nonzero \in {take_nonzero(reg.a, image)} :
          IF image_nonzero = <<>>
          THEN \/ /\ error' = TRUE
                  /\ pc' = Idle
                  /\ reg' = NoReg
                  /\ cb' = cb
               \/ /\ Return(pc.call, <<NaN, NaN>>)
                  /\ error' = error
          ELSE /\ Return(pc.call, <<percentile(image_nonzero, min_percentile),
                                    percentile(image_nonzero, max_percentile)>>)
               /\ error' = error
    /\ UNCHANGED <<manual, min_manual, max_manual, min_percentile, max_percentile,
                   image, levels, trace, last, rt, bar, csVars>>

\* refresh_image: image_data = self._image.image
conc_image_data ==
    /\ pc.at = "image_data"
    /\ reg' = [reg EXCEPT !.image_data = image]
    /\ seen' = Read(seen, image)
    /\ pc' = At("test", 2)
    /\ UNCHANGED <<wvars, bar, csVars>>

\* refresh_image: self._image.setImage(image=image_data, levels=cb_range)
conc_setImage ==
    /\ pc.at = "setImage"
    /\ image' = reg.image_data
    /\ levels' = reg.r
    /\ pc' = At("test", 3)
    /\ reg' = NoReg
    /\ UNCHANGED <<manual, min_manual, max_manual, min_percentile, max_percentile,
                   cb, trace, error, last, rt, seen, bar, csVars>>

\* the owning image view replaces the sample, on its own thread
view_setImage ==
    \E d \in Images \ {image} :
        /\ seen.replaced < MaxReplace
        /\ seen' = [seen EXCEPT !.replaced = @ + 1]
        /\ image' = d
        /\ UNCHANGED <<manual, min_manual, max_manual, min_percentile,
                       max_percentile, cb, levels, trace, error, last, rt,
                       pc, reg, bar, csVars>>

InitConc == Init

NextConc ==
    \/ conc_click
    \/ conc_test
    \/ conc_read_a
    \/ conc_read_idx
    \/ conc_image_data
    \/ conc_setImage
    \/ view_setImage

SpecConc == InitConc /\ [][NextConc]_vars

\* C12: at the end of a recompute cycle that returned, all reads of the sample
\* in the cycle gave one value, and the legend range is the image levels.
C12_SingleSnapshot ==
    (pc = Idle /\ last \in Clicks /\ ~error) =>
        (seen.same /\ cb = levels)


\* ---- ColorBar: the legend as a recorded picture ----

\* numbers of numpy and Qt as fractions <<numerator, denominator>>, the
\* denominator positive; denominator 0 is nan (0.0/0.0)
Frac(n, d) == IF d < 0 THEN <<0 - n, 0 - d>> ELSE <<n, d>>
IsNaN(a) == a[2] = 0
FSub(a, b) == Frac(a[1] * b[2] - b[1] * a[2], a[2] * b[2])
FAdd(a, b) == Frac(a[1] * b[2] + b[1] * a[2], a[2] * b[2])
FMul(a, b) == Frac(a[1] * b[1], a[2] * b[2])
FDiv(a, b) == Frac(a[1] * b[2], a[2] * b[1])
FEq(a, b) == ~IsNaN(a) /\ ~IsNaN(b) /\ a[1] * b[2] = b[1] * a[2]
FLe(a, b) == ~IsNaN(a) /\ ~IsNaN(b) /\ a[1] * b[2] <= b[1] * a[2]
FLt(a, b) == FLe(a, b) /\ ~FEq(a, b)

\* the colormaps that are passed to ColorBar: cmap.getStops('float') gives the
\* positions and the colors (one channel, 0.0 to 1.0); the last one has all
\* stops at one position
CMaps ==
    { [pos |-> <<1, 3>>,    color |-> <<0, 1>>],
      [pos |-> <<0, 1, 4>>, color |-> <<0, 1, 0>>],
      [pos |-> <<2, 2>>,    color |-> <<0, 1>>] }

\* an optional argument: <<>> is None, <<x>> is x
None == <<>>
Widths == {1, 2}
Opt(S) == {None} \cup {<<x>> : x \in S}

\* QRectF(x, y, w, h); QRectF() of an empty picture
QRectF(x, y, w, h) == [x |-> x, y |-> y, w |-> w, h |-> h]
NullRect == QRectF(0, 0, 0, 0)
Min2(a, b) == IF a <= b THEN a ELSE b
Max2(a, b) == IF a >= b THEN a ELSE b

\* QRect united: the bounding rectangle of both; an empty one adds nothing
united(r, q) ==
    IF q.w <= 0 \/ q.h <= 0 THEN r
    ELSE IF r.w <= 0 \/ r.h <= 0 THEN q
    ELSE LET x == Min2(r.x, q.x)
             y == Min2(r.y, q.y)
         IN  QRectF(x, y, Max2(r.x + r.w, q.x + q.w) - x,
                          Max2(r.y + r.h, q.y + q.h) - y)

\* self.stops after line 54: (stops - stops.min()) / stops.ptp(); numpy gives
\* nan for 0.0/0.0 and goes on
normed_stops(pos) ==
    LET lo == np_min(pos)
        ptp == np_max(pos) - lo
    IN  [i \in DOMAIN pos |-> Frac(pos[i] - lo, ptp)]

\* QGradient.setColorAt(pos, color): the stops are kept in the order of their
\* positions, a stop at a position already there is replaced, nan goes first
RECURSIVE setColorAt(_, _, _)
setColorAt(stops, at, color) ==
    IF stops = <<>> \/ IsNaN(at) THEN <<[at |-> at, color |-> color]>> \o stops
    ELSE IF FEq(Head(stops).at, at)
         THEN <<[at |-> at, color |-> color]>> \o Tail(stops)
    ELSE IF FLt(at, Head(stops).at)
         THEN <<[at |-> at, color |-> color]>> \o stops
    ELSE <<Head(stops)>> \o setColorAt(Tail(stops), at, color)


\* faulty variant: the colormap stops put on the gradient as they are
gradient_stops_direct(stops, colors) ==
    LET F[i \in 0..Len(stops)] ==
            IF i = 0 THEN <<>>
            ELSE setColorAt(F[i - 1], stops[i], Frac(255 * colors[i], 1))
    IN  F[Len(stops)]

\* lines 85-86: grad.setColorAt(1.0 - stop, QColor(*[255*c for c in color]))
\* for every stop
gradient_stops(stops, colors) ==
    LET F[i \in 0..Len(stops)] ==
            IF i = 0 THEN <<>>
            ELSE setColorAt(F[i - 1], FSub(<<1, 1>>, stops[i]),
                            Frac(255 * colors[i], 1))
    IN  F[Len(stops)]

\* QLinearGradient(width/2, cb_min, width/2, cb_max) with its stops
QLinearGradient(cb_min, cb_max, stops) ==
    [y0 |-> cb_min, y1 |-> cb_max, stops |-> stops]
NoBrush == [y0 |-> 0, y1 |-> 0, stops |-> <<>>]

\* faulty variant: the painter goes on with the picture as it is
QPainter_continue(b) == b

\* QPainter(self.pic): recording starts over, the picture and its bounding
\* rectangle are empty again
QPainter(b) == [b EXCEPT !.pic = <<>>, !.brect = NullRect]

\* ColorBar.boundingRect
boundingRect(b) == b.brect

\* p.drawRect(rect) with the pen and brush that are set
drawRect(b, rect, pen, brush) ==
    [b EXCEPT !.pic = Append(@, [rect |-> rect, pen |-> pen, brush |-> brush]),
              !.brect = united(@, rect)]

\* ColorBar.refresh_colorbar(cb_min, cb_max, width, height, xMin, yMin)
ColorBar_refresh_colorbar(b, cb_min, cb_max, width, height, xMin, yMin) ==
    LET w    == IF width = None THEN b.width ELSE width[1]
        p    == QPainter([b EXCEPT !.width = w])
        old  == drawRect(p, boundingRect(p), "default", NoBrush)
        grad == QLinearGradient(cb_min, cb_max, gradient_stops(b.stops, b.colors))
        rect == IF xMin = None
                THEN QRectF(0, cb_min, w, cb_max - cb_min)
                ELSE QRectF(xMin[1], yMin[1], w, height[1])
    IN  [drawRect(old, rect, "k", grad)
            EXCEPT !.args = [cb_min |-> cb_min, cb_max |-> cb_max, width |-> w,
                             height |-> height, xMin |-> xMin, yMin |-> yMin],
                   !.width_before = b.width]

\* ColorBar.__init__(cmap, width, cb_min, cb_max)
ColorBar_init(cmap, width, cb_min, cb_max) ==
    ColorBar_refresh_colorbar(
        [cmap |-> cmap, stops |-> normed_stops(cmap.pos), colors |-> cmap.color,
         width |-> width, pic |-> <<>>, brect |-> NullRect, args |-> <<>>,
         width_before |-> width],
        cb_min, cb_max, None, None, None, None)

\* the rectangle arguments of refresh_colorbar: none of them, or all three
RectArgs ==
    {[xMin |-> None, yMin |-> None, height |-> None]} \cup
    {[xMin |-> <<0>>, yMin |-> <<1>>, height |-> <<1>>]}

Bars == {"A", "B"}

\* no ColorbarWidget in this specification
WidgetOff ==
    /\ manual = FALSE /\ min_manual = 0 /\ max_manual = 0
    /\ min_percentile = 0 /\ max_percentile = 0
    /\ image = NoImage /\ cb = <<>> /\ levels = NoLevels
    /\ trace = <<>> /\ error = FALSE /\ last = "init" /\ rt = NoTrip

\* two ColorBar objects are constructed from one colormap
InitBar ==
    /\ WidgetOff /\ ConcOff /\ CsOff
    /\ \E cmap \in CMaps :
       \E a \in {ColorBar_init(cmap, w, lo, hi) : w \in Widths, lo \in Vals, hi \in Vals} :
       \E b \in {ColorBar_init(cmap, w, lo, hi) : w \in Widths, lo \in Vals, hi \in Vals} :
          bar = [k \in Bars |-> IF k = "A" THEN a ELSE b]

\* a call of refresh_colorbar on one of them
bar_refresh_colorbar ==
    \E k \in Bars, cb_min \in Vals, cb_max \in Vals, width \in Opt(Widths),
       r \in RectArgs :
       \E new \in {ColorBar_refresh_colorbar(bar[k], cb_min, cb_max, width,
                                             r.height, r.xMin, r.yMin)} :
          /\ bar' = [bar EXCEPT ![k] = new]
          /\ UNCHANGED <<wvars, concVars, csVars>>

NextBar == bar_refresh_colorbar

SpecBar == InitBar /\ [][NextBar]_vars


\* linear interpolation in a list of stops ordered by position; the first
\* color before the first stop, the last color after the last one
interp(points, x) ==
    LET n == Len(points)
    IN  IF FLe(x, points[1].at) THEN points[1].color
        ELSE IF FLe(points[n].at, x) THEN points[n].color
        ELSE LET i == CHOOSE j \in 1..(n - 1) :
                          FLe(points[j].at, x) /\ FLt(x, points[j + 1].at)
                 p == points[i]
                 q == points[i + 1]
             IN  FAdd(p.color,
                      FMul(FSub(q.color, p.color),
                           FDiv(FSub(x, p.at), FSub(q.at, p.at))))

\* ColorBar.paint: the color that the gradient rectangle of the picture has
\* at height y; a gradient of length zero is evaluated at its start
color_at(b, y) ==
    LET g   == b.pic[Len(b.pic)].brush
        len == g.y1 - g.y0
        pos == IF len = 0 THEN <<0, 1>>
               ELSE FDiv(FSub(y, <<g.y0, 1>>), <<len, 1>>)
    IN  interp(g.stops, pos)

\* height y lies in the gradient rectangle of the picture
inside(b, y) ==
    LET r == b.pic[Len(b.pic)].rect
    IN  /\ FLe(<<Min2(r.y, r.y + r.h), 1>>, y)
        /\ FLe(y, <<Max2(r.y, r.y + r.h), 1>>)

\* ---- claims about ColorBar ----

\* the color of the colormap at position x in [0, 1]
colorAt(cmap, x) ==
    interp([i \in DOMAIN cmap.pos |->
               [at |-> normed_stops(cmap.pos)[i],
                color |-> Frac(255 * cmap.color[i], 1)]], x)
normalize(v, lo, hi) == FDiv(FSub(v, <<lo, 1>>), <<hi - lo, 1>>)
Degenerate(cmap) == np_min(cmap.pos) = np_max(cmap.pos)
\* the heights k/2 from lo to hi
Heights(lo, hi) == {<<k, 2>> : k \in (2 * lo)..(2 * hi)}

\* C13: over [min, max] with min < max the color drawn at the height of value
\* v is the colormap color at normalize(v): the lowest stop at min, the
\* highest stop at max.
C13_ColorAtNormalize ==
    \A k \in Bars :
        LET b == bar[k]
            a == b.args
        IN  (~Degenerate(b.cmap) /\ a.cb_min < a.cb_max) =>
                \A v \in Heights(a.cb_min, a.cb_max) :
                    inside(b, v) =>
                        FEq(color_at(b, v),
                            colorAt(b.cmap, normalize(v, a.cb_min, a.cb_max)))

\* C13 as amended: the color drawn at the height of value v is the colormap
\* color at 1 - normalize(v): the highest stop at min, the lowest stop at max.
C13_ColorAtInverse ==
    \A k \in Bars :
        LET b == bar[k]
            a == b.args
        IN  (~Degenerate(b.cmap) /\ a.cb_min < a.cb_max) =>
                \A v \in Heights(a.cb_min, a.cb_max) :
                    inside(b, v) =>
                        FEq(color_at(b, v),
                            colorAt(b.cmap,
                                    FSub(<<1, 1>>, normalize(v, a.cb_min, a.cb_max))))

C13_Witness ==
    \E k \in Bars :
        LET b == bar[k]
            a == b.args
        IN  /\ Len(b.cmap.pos) = 3
            /\ a.cb_min = 0 /\ a.cb_max = MaxVal /\ a.xMin = None
            /\ b.width_before # b.width
            /\ \E v \in Heights(a.cb_min, a.cb_max) :
                  ~FEq(color_at(b, v), color_at(b, <<a.cb_min, 1>>))

\* C14: no ColorBar is constructed with an undefined stop position.
C14_NoUndefinedStops ==
    \A k \in Bars : \A i \in DOMAIN bar[k].stops : ~IsNaN(bar[k].stops[i])

\* C15: a legend rendered with min = max is recorded in full, and everywhere
\* in its rectangle it has the colormap color at position 1.0.
C15_FlatColor ==
    \A k \in Bars :
        LET b == bar[k]
            a == b.args
        IN  (~Degenerate(b.cmap) /\ a.cb_min = a.cb_max) =>
                /\ Len(b.pic) = 2
                /\ \A y \in Heights(0, MaxVal + 1) :
                      inside(b, y) =>
                          FEq(color_at(b, y), colorAt(b.cmap, <<1, 1>>))

C15_Witness ==
    \E k \in Bars :
        LET b == bar[k]
            a == b.args
        IN  /\ ~Degenerate(b.cmap) /\ a.cb_min = a.cb_max /\ a.xMin # None
            /\ b.cmap.color[1] # b.cmap.color[Len(b.cmap.color)]
            /\ \E y \in Heights(0, MaxVal + 1) :
                  /\ inside(b, y) /\ ~FEq(y, <<a.cb_min, 1>>)
                  /\ FEq(color_at(b, y), colorAt(b.cmap, <<1, 1>>))

\* C16: two ColorBar objects of one colormap whose last renders had the same
\* min, max, width and rectangle hold the same picture and the same bounding
\* rectangle, whatever was rendered before.
C16_RenderReplaces ==
    bar["A"].args = bar["B"].args =>
        /\ bar["A"].pic = bar["B"].pic
        /\ boundingRect(bar["A"]) = boundingRect(bar["B"])

C16_Witness ==
    /\ bar["A"].args = bar["B"].args
    /\ bar["A"].width_before # bar["B"].width_before
    /\ bar["A"].pic = bar["B"].pic


\* ---- CornerstoneSpectrometer: set_grating and set_wavelength from several threads ----

NThreads == 2
Threads == 1..NThreads

\* the calls: set_grating(value) and set_wavelength(value)
Requests == {[op |-> "set_grating", value |-> v] : v \in {0, 1}} \cup
            {[op |-> "set_wavelength", value |-> v] : v \in {1, 2}}
NoRequest == [op |-> "none", value |-> 0]

\* a thread that is in no call
NoCall == [pc |-> "idle", req |-> NoRequest, busy |-> FALSE, out |-> "none"]

\* faulty variant: the module is reported ready whatever its state
get_ready_state_always(state) == TRUE

\* CornerstoneSpectrometer.get_ready_state
get_ready_state(state) == state = "idle"

\* the module is activated, no call is in progress
InitCs ==
    /\ WidgetOff /\ ConcOff /\ BarOff
    /\ module_state = "idle"
    /\ device = [grating |-> 0, wavelength |-> 0]
    /\ th = [t \in Threads |-> NoCall]
    /\ cmds = <<>>

\* a thread calls set_grating(value) or set_wavelength(value)
cs_call(t) ==
    \E r \in Requests :
        /\ th[t].pc = "idle"
        /\ th' = [th EXCEPT ![t] = [pc |-> "check", req |-> r, busy |-> FALSE,
                                    out |-> "none"]]
        /\ UNCHANGED <<module_state, device, cmds, wvars, concVars, bar>>

\* if self.get_ready_state():
cs_get_ready_state(t) ==
    /\ th[t].pc = "check"
    /\ th' = [th EXCEPT ![t].busy = module_state # "idle",
                        ![t].pc = IF get_ready_state(module_state)
                                  THEN "lock" ELSE "warning"]
    /\ UNCHANGED <<module_state, device, cmds, wvars, concVars, bar>>

\* else: self.log.warning(...), and the call returns
cs_warning(t) ==
    /\ th[t].pc = "warning"
    /\ th' = [th EXCEPT ![t].pc = "idle", ![t].req = NoRequest,
                        ![t].out = "warned"]
    /\ UNCHANGED <<module_state, device, cmds, wvars, concVars, bar>>

\* self.module_state.lock(): the event lock leads from idle to locked and
\* raises in every other state
cs_lock(t) ==
    /\ th[t].pc = "lock"
    /\ IF module_state = "idle"
       THEN /\ module_state' = "locked"
            /\ th' = [th EXCEPT ![t].pc = "device"]
       ELSE /\ module_state' = module_state
            /\ th' = [th EXCEPT ![t].pc = "idle", ![t].req = NoRequest,
                                ![t].out = "raised"]
    /\ UNCHANGED <<device, cmds, wvars, concVars, bar>>

\* self._device.setGrating(value+1) / self._device.setWavelength(float(value)*1.0e9),
\* for set_wavelength followed by time.sleep(0.1): the command is carried out
cs_device(t) ==
    /\ th[t].pc = "device"
    /\ device' = IF th[t].req.op = "set_grating"
                 THEN [device EXCEPT !.grating = th[t].req.value]
                 ELSE [device EXCEPT !.wavelength = th[t].req.value]
    /\ cmds' = [req |-> th[t].req, state |-> module_state]
    /\ th' = [th EXCEPT ![t].pc = "unlock"]
    /\ UNCHANGED <<module_state, wvars, concVars, bar>>

\* the same statement raises (the device call fails, or value is no number):
\* the exception leaves the method, nothing catches it
cs_device_raises(t) ==
    /\ th[t].pc = "device"
    /\ th' = [th EXCEPT ![t].pc = "idle", ![t].req = NoRequest,
                        ![t].out = "raised"]
    /\ UNCHANGED <<module_state, device, cmds, wvars, concVars, bar>>

\* self.module_state.unlock(): the event unlock leads from locked to idle and
\* raises in every other state
cs_unlock(t) ==
    /\ th[t].pc = "unlock"
    /\ module_state' = IF module_state = "locked" THEN "idle" ELSE module_state
    /\ th' = [th EXCEPT ![t].pc = "idle", ![t].req = NoRequest,
                        ![t].out = IF module_state = "locked"
                                   THEN "returned" ELSE "raised"]
    /\ UNCHANGED <<device, cmds, wvars, concVars, bar>>

NextCs ==
    \/ \E t \in Threads : cs_call(t)
    \/ \E t \in Threads : cs_get_ready_state(t)
    \/ \E t \in Threads : cs_warning(t)
    \/ \E t \in Threads : cs_lock(t)
    \/ \E t \in Threads : cs_device(t)
    \/ \E t \in Threads : cs_device_raises(t)
    \/ \E t \in Threads : cs_unlock(t)

SpecCs == InitCs /\ [][NextCs]_vars


\* ---- claims about CornerstoneSpectrometer ----

NoCallRuns == \A t \in Threads : th[t].pc = "idle"

\* C18: whenever no call of set_grating / set_wavelength is in progress,
\* whether the calls returned or raised, module_state is idle.
C18_IdleAfterCalls == NoCallRuns => module_state = "idle"

\* C19: a caller that has passed the get_ready_state check calls lock() on an
\* idle module_state, and at most one caller is between lock() and unlock().
C19_MutualExclusion ==
    /\ \A t \in Threads : th[t].pc = "lock" => module_state = "idle"
    /\ Cardinality({t \in Threads : th[t].pc \in {"device", "unlock"}}) <= 1
    /\ \A t \in Threads : th[t].pc = "unlock" => module_state = "locked"

\* C20: a call that finds the module not idle goes to the warning, sends no
\* command and returns after the warning; every command sent to the device
\* was sent while module_state was locked.
C20_BusyRefused ==
    /\ \A t \in Threads :
          th[t].busy =>
              /\ th[t].pc \in {"warning", "idle"}
              /\ th[t].pc = "idle" => th[t].out = "warned"
    /\ \A t \in Threads : th[t].out = "warned" => th[t].busy
    /\ cmds # <<>> => cmds.state = "locked"

C20_Witness ==
    \E t \in Threads, u \in Threads :
        /\ th[t].out = "warned" /\ th[t].busy
        /\ th[u].pc = "unlock" /\ cmds # <<>> /\ cmds.req = th[u].req

====
